---- MODULE Spec2Model ----
(***************************************************************************)
(* WebDB: a promise wrapper over IndexedDB (src/src/db.ts, and the later   *)
(* revision of the same class kept as src/unnamed/part_000).               *)
(*                                                                         *)
(* The model has two layers.  The engine layer is what the class calls:    *)
(* one database (version, object stores with records, indexes and key      *)
(* generator), the open request and its events, transactions and their     *)
(* requests.  The handle layer is the class: its field db, its open        *)
(* handlers and its seven methods.  Every action is one task of the event  *)
(* loop: a method call runs up to the point where it waits for an engine   *)
(* event (the awaits of an already settled promise are microtasks of the   *)
(* same task), and an engine event runs the callbacks the class wired.     *)
(***************************************************************************)
EXTENDS Integers, Sequences, FiniteSets, TLC

(* Bounds of the model. *)
MaxVersion == 2
MaxKey == 2
MaxOps == 2
MaxHooks == 2

StoreNames == {"s1", "s2"}
IndexNames == {"i1"}
Values == {"a", "b"}
Keys == 1..MaxKey
Versions == 1..MaxVersion
NoKey == 0
Variants == {"db.ts", "part_000"}
HandlerNames == {"onBlocked", "onVersionChange", "onError"}

VARIABLES
  variant,      \* which revision of the class runs: src/src/db.ts or src/unnamed/part_000
  idbVersion,   \* engine: stored version of the database, 0 when it does not exist
  idbStores,    \* engine: store name -> [recs, idx, auto, gen]
  otherOpen,    \* engine: another connection (another tab) holds the database open
  prior,        \* engine: [version, stores] when the open request was issued
  version,      \* constructor argument version
  setup,        \* constructor argument setup.objectStores: sequence of descriptors
  handlers,     \* constructor argument handlers: the set of hooks supplied
  db,           \* this.db: "undefined" or "connection"
  phase,        \* open handshake: Idle, Blocked, Upgrading, Open, Error
  subscribed,   \* this.db.onversionchange was assigned
  hookLog,      \* calls of the hooks, in order
  ops,          \* the method calls made on the handle, in call order
  txs,          \* engine: the transactions created on the connection, in creation order
  budget        \* number of method calls the caller still makes

vars == <<variant, idbVersion, idbStores, otherOpen, prior, version, setup, handlers,
          db, phase, subscribed, hookLog, ops, txs, budget>>

hsVars == <<variant, version, setup, handlers>>

(***************************************************************************)
(* Engine: object stores.                                                  *)
(***************************************************************************)
EmptyRecs == <<>>

\* IDBDatabase.createObjectStore(name, options) followed by createIndex for
\* each declared index: an empty store whose key generator starts at 1.
NewStore(d) ==
  [recs |-> EmptyRecs, idx |-> d.indexes, auto |-> d.auto, gen |-> 1]

\* IDBDatabase.deleteObjectStore(name)
DeleteObjectStore(st, n) == [m \in (DOMAIN st) \ {n} |-> st[m]]

\* IDBDatabase.objectStoreNames.contains(name)
Contains(st, n) == n \in DOMAIN st

(***************************************************************************)
(* handleUpgradeNeeded: the body of the for loop, for one descriptor.      *)
(***************************************************************************)
\* (as it would be without the createIndex calls)
ApplyDescriptorNoIndexes(st, d) ==
  LET st1 == IF d.recreate /\ Contains(st, d.name)
             THEN DeleteObjectStore(st, d.name) ELSE st
  IN IF ~Contains(st1, d.name)
     THEN (d.name :> [NewStore(d) EXCEPT !.idx = {}]) @@ st1
     ELSE st1

\* (as it would be if the recreate flag were ignored)
ApplyDescriptorKeeps(st, d) ==
  IF ~Contains(st, d.name)
  THEN (d.name :> NewStore(d)) @@ st
  ELSE st

\* (as it would be if the indexes were created on every declared store)
ApplyDescriptorAddsIndexes(st, d) ==
  LET st1 == IF d.recreate /\ Contains(st, d.name)
             THEN DeleteObjectStore(st, d.name) ELSE st
  IN IF ~Contains(st1, d.name)
     THEN (d.name :> NewStore(d)) @@ st1
     ELSE [st1 EXCEPT ![d.name].idx = @ \cup d.indexes]

ApplyDescriptor(st, d) ==
  LET st1 == IF d.recreate /\ Contains(st, d.name)
             THEN DeleteObjectStore(st, d.name) ELSE st
  IN IF ~Contains(st1, d.name)
     THEN (d.name :> NewStore(d)) @@ st1
     ELSE st1

\* handleUpgradeNeeded: the for loop over setup.objectStores, in order.
RECURSIVE ApplySetup(_, _)
ApplySetup(st, ds) ==
  IF ds = <<>> THEN st
  ELSE ApplySetup(ApplyDescriptor(st, Head(ds)), Tail(ds))

(***************************************************************************)
(* The open handshake.                                                     *)
(***************************************************************************)
UpgradeIsNeeded == version > idbVersion

\* (as it would be if the callbacks were wired whether or not the hook was supplied)
LogAlways(h, old, new) == Append(hookLog, [hook |-> h, old |-> old, new |-> new])

Log(h, old, new) ==
  IF h \in handlers THEN Append(hookLog, [hook |-> h, old |-> old, new |-> new])
  ELSE hookLog

\* databaseRequest.onupgradeneeded: the engine has started the upgrade
\* transaction (the stored version is already the requested one inside it).
handleUpgradeNeeded ==
  /\ phase \in {"Idle", "Blocked"}
  /\ UpgradeIsNeeded
  /\ ~otherOpen
  /\ db' = "connection"
  /\ idbStores' = ApplySetup(idbStores, setup)
  /\ idbVersion' = version
  /\ phase' = "Upgrading"
  /\ UNCHANGED <<hsVars, otherOpen, prior, subscribed, hookLog, ops, txs, budget>>

\* (as it would be if the success callback applied the declaration too)
handleSuccessAppliesSetup ==
  /\ \/ phase = "Upgrading"
     \/ phase = "Idle" /\ version = idbVersion
  /\ db' = "connection"
  /\ idbStores' = ApplySetup(idbStores, setup)
  /\ subscribed' = ("onVersionChange" \in handlers)
  /\ phase' = "Open"
  /\ UNCHANGED <<hsVars, idbVersion, otherOpen, prior, hookLog, ops, txs, budget>>

\* databaseRequest.onsuccess: no upgrade was needed, or the upgrade
\* transaction has committed.
handleSuccess ==
  /\ \/ phase = "Upgrading"
     \/ phase = "Idle" /\ version = idbVersion
  /\ db' = "connection"
  /\ subscribed' = ("onVersionChange" \in handlers)
  /\ phase' = "Open"
  /\ UNCHANGED <<hsVars, idbVersion, idbStores, otherOpen, prior, hookLog, ops, txs, budget>>

\* databaseRequest.onblocked: another connection stays open while this
\* request needs an upgrade.  The callback is wired only when supplied.
handleBlocked ==
  /\ phase = "Idle"
  /\ UpgradeIsNeeded
  /\ otherOpen
  /\ phase' = "Blocked"
  /\ hookLog' = Log("onBlocked", idbVersion, version)
  /\ UNCHANGED <<hsVars, idbVersion, idbStores, otherOpen, prior, db, subscribed, ops, txs, budget>>

\* The other connection closes (the other tab reacts to versionchange or goes away).
OtherCloses ==
  /\ otherOpen
  /\ otherOpen' = FALSE
  /\ UNCHANGED <<hsVars, idbVersion, idbStores, prior, db, phase, subscribed, hookLog, ops, txs, budget>>

\* databaseRequest.onerror: the open request fails (a requested version
\* below the stored one, or a failure of the engine).  From Idle or Blocked
\* nothing was changed; from Upgrading the upgrade transaction is aborted,
\* which reverts the stores and the version and closes the connection.
\* The callback is wired only when supplied; it does not touch this.db.
handleError ==
  /\ phase \in {"Idle", "Blocked", "Upgrading"}
  /\ idbStores' = IF phase = "Upgrading" THEN prior.stores ELSE idbStores
  /\ idbVersion' = IF phase = "Upgrading" THEN prior.version ELSE idbVersion
  /\ phase' = "Error"
  /\ hookLog' = Log("onError", 0, 0)
  /\ UNCHANGED <<hsVars, otherOpen, prior, db, subscribed, ops, txs, budget>>

\* db.onversionchange: another connection asks for a newer version while
\* this one is open.  The callback is assigned in onsuccess, only when the
\* hook was supplied; the class does not close the connection.
onversionchange ==
  /\ phase = "Open"
  /\ subscribed
  /\ Len(hookLog) < MaxHooks
  /\ hookLog' = IF db = "connection"
                THEN Log("onVersionChange", idbVersion, idbVersion + 1) ELSE hookLog
  /\ UNCHANGED <<hsVars, idbVersion, idbStores, otherOpen, prior, db, phase, subscribed,
                 ops, txs, budget>>

(***************************************************************************)
(* Promises and the results they settle with.                              *)
(***************************************************************************)
Res(tag, k, v, l) == [tag |-> tag, key |-> k, val |-> v, list |-> l]
NoRes == Res("none", NoKey, "", <<>>)
Tag(tag) == Res(tag, NoKey, "", <<>>)

\* new Error("Couldn't resolve the transaction")
Unresolved == Tag("Couldn't resolve the transaction")

(***************************************************************************)
(* Engine: transactions.                                                   *)
(***************************************************************************)
NewTx(scope, mode) ==
  [scope |-> scope, mode |-> mode, state |-> "active", undo |-> <<>>]

Overlap(t, u) ==
  /\ t.scope \cap u.scope # {}
  /\ "readwrite" \in {t.mode, u.mode}

\* The engine starts a transaction when every transaction created before it
\* whose scope overlaps (one of the two being readwrite) has finished.
CanRun(i) ==
  /\ txs[i].state = "active"
  /\ \A j \in 1..(i - 1) : txs[j].state = "active" => ~Overlap(txs[j], txs[i])

\* IDBDatabase.transaction(storeNames, mode) as called at db.ts line 98:
\* the value it returns or the exception it throws.
IdbTransaction(scope) ==
  IF phase # "Open" THEN "InvalidStateError"
  ELSE IF ~(scope \subseteq DOMAIN idbStores) THEN "NotFoundError"
  ELSE "transaction"

\* WebDB.transaction: "transaction" when the promise resolves, else the
\* error it rejects with (an exception thrown inside the executor of
\* new Promise rejects the promise).
transactionOutcome(scope) ==
  IF db = "undefined" THEN Unresolved.tag
  ELSE IdbTransaction(scope)

(***************************************************************************)
(* Method calls.  ops[i] is one call: its arguments, its promise, the      *)
(* transaction it created (0: none), the state of its request, the         *)
(* exception that escaped from an async executor (the promise of the       *)
(* executor rejects unhandled and the returned promise is never settled),  *)
(* what the handle looked like when the call was made, and the earlier     *)
(* calls whose promise had resolved by then.                               *)
(***************************************************************************)
NewOp(kind, scope, key, val) ==
  [kind |-> kind, scope |-> scope, key |-> key, val |-> val,
   promise |-> "pending", res |-> NoRes, tx |-> 0, req |-> "none", rkey |-> NoKey,
   escaped |-> "none", fault |-> FALSE, dbAtCall |-> db, phaseAtCall |-> phase,
   after |-> {i \in 1..Len(ops) : ops[i].promise = "resolved"}]

\* (as it would be if the last call of resolve or reject won)
SettleOverwrites(o, how, r) == [o EXCEPT !.promise = how, !.res = r]

\* resolve(v) / reject(e): a promise settles once, later calls are ignored.
Settle(o, how, r) ==
  IF o.promise = "pending" THEN [o EXCEPT !.promise = how, !.res = r] ELSE o

\* (as it would be if the methods left the mode argument to its default)
ModeDefault(kind, mode) == IF kind = "transaction" THEN mode ELSE "readonly"

\* (as it would be if every method asked for a readwrite transaction)
ModeReadwrite(kind, mode) == IF kind = "transaction" THEN mode ELSE "readwrite"

Mode(kind, mode) == IF kind = "transaction" THEN mode
                    ELSE IF kind \in {"get", "getAll"} THEN "readonly" ELSE "readwrite"

TheStore(o) == CHOOSE n \in o.scope : TRUE

\* Methods written as  new Promise(async (resolve, reject) => {...}).
AsyncExecutor(kind) ==
  kind \in {"add", "put", "delete"} \/ (kind = "clear" /\ variant = "part_000")

\* IDBObjectStore.add/put(data, key) throws DataError when the store has no
\* key generator (and no key path) and no key is given.
ThrowsDataError(o) ==
  /\ o.kind \in {"add", "put"}
  /\ o.key = NoKey
  /\ ~idbStores[TheStore(o)].auto

\* The part of a method that runs when the transaction could not be made.
Failed(o, err) ==
  IF AsyncExecutor(o.kind) THEN [o EXCEPT !.escaped = err]
  ELSE Settle(o, "rejected", Tag(err))

\* The part of a method that runs once it holds its transaction.
Issued(o, t) ==
  LET o1 == [o EXCEPT !.tx = t]
  IN CASE o.kind = "transaction" -> Settle(o1, "resolved", Tag("transaction"))
       [] o.kind \in {"get", "getAll", "delete"} -> [o1 EXCEPT !.req = "pending"]
       [] o.kind \in {"add", "put"} ->
            IF ThrowsDataError(o) THEN [o1 EXCEPT !.escaped = "DataError"]
            ELSE [o1 EXCEPT !.req = "pending"]
       [] o.kind = "clear" ->
            IF variant = "db.ts"
            THEN Settle([o1 EXCEPT !.req = "pending"], "resolved", Tag("undefined"))
            ELSE [o1 EXCEPT !.req = "pending"]

Call(kind, scope, mode, key, val) ==
  LET o == NewOp(kind, scope, key, val)
      out == transactionOutcome(scope)
  IN /\ budget > 0
     /\ budget' = budget - 1
     /\ IF out = "transaction"
        THEN /\ txs' = Append(txs, NewTx(scope, Mode(kind, mode)))
             /\ ops' = Append(ops, Issued(o, Len(txs) + 1))
        ELSE /\ txs' = txs
             /\ ops' = Append(ops, Failed(o, out))
     /\ UNCHANGED <<hsVars, idbVersion, idbStores, otherOpen, prior, db, phase,
                    subscribed, hookLog>>

\* The seven methods, with the arguments the caller draws them from.
transactionOf(S) ==
  \E s \in S, m \in {"readonly", "readwrite"} : Call("transaction", {s}, m, NoKey, "")

getOf(S, K) == \E s \in S, k \in K : Call("get", {s}, "", k, "")

getAllOf(S) == \E s \in S : Call("getAll", {s}, "", NoKey, "")

addOf(S, K, V) == \E s \in S, k \in K, v \in V : Call("add", {s}, "", k, v)

putOf(S, K, V) == \E s \in S, k \in K, v \in V : Call("put", {s}, "", k, v)

\* storeNames is one name or an array of names; both branches of
\* Array.isArray clear every store named.
clearOf(S) == \E ns \in (SUBSET S) \ {{}} : Call("clear", ns, "", NoKey, "")

deleteOf(S, K) == \E s \in S, k \in K : Call("delete", {s}, "", k, "")

transaction == transactionOf(StoreNames)

get == getOf(StoreNames, Keys)

getAll == getAllOf(StoreNames)

add == addOf(StoreNames, Keys \cup {NoKey}, Values)

put == putOf(StoreNames, Keys \cup {NoKey}, Values)

clear == clearOf(StoreNames)

delete == deleteOf(StoreNames, Keys)

(***************************************************************************)
(* Engine: execution of the requests of a transaction.                     *)
(***************************************************************************)
\* The key an add/put stores under: the one given, else the next number of
\* the store's key generator.
KeyOf(o, st) == IF o.key # NoKey THEN o.key ELSE st.gen

\* The engine fails an add whose key is taken, and an add/put that needs a
\* generated key when the generator is exhausted (ConstraintError).
ConstraintError(o) ==
  LET st == idbStores[TheStore(o)]
  IN /\ o.kind \in {"add", "put"}
     /\ \/ o.kind = "add" /\ KeyOf(o, st) \in DOMAIN st.recs
        \/ o.key = NoKey /\ st.gen > MaxKey

Max(a, b) == IF a > b THEN a ELSE b

Store(st, k, v) ==
  [st EXCEPT !.recs = (k :> v) @@ st.recs,
             !.gen = IF st.auto THEN Max(st.gen, k + 1) ELSE st.gen]

Remove(st, k) ==
  [st EXCEPT !.recs = [j \in (DOMAIN st.recs) \ {k} |-> st.recs[j]]]

\* The records of a store in ascending key order (IDBObjectStore.getAll).
RECURSIVE Listing(_, _)
Listing(recs, k) ==
  IF k > MaxKey THEN <<>>
  ELSE (IF k \in DOMAIN recs THEN <<recs[k]>> ELSE <<>>) \o Listing(recs, k + 1)

\* (as it would be if delete issued a request that removes nothing)
EffectDeleteKeeps(o) ==
  LET s == TheStore(o)
      st == idbStores[s]
  IN CASE o.kind \in {"add", "put"} -> [idbStores EXCEPT ![s] = Store(st, KeyOf(o, st), o.val)]
       [] o.kind = "clear" ->
            [n \in DOMAIN idbStores |->
               IF n \in o.scope THEN [idbStores[n] EXCEPT !.recs = EmptyRecs]
               ELSE idbStores[n]]
       [] OTHER -> idbStores

\* (as it would be if clear cleared only the first store of an array)
EffectClearsOne(o) ==
  LET s == TheStore(o)
      st == idbStores[s]
  IN CASE o.kind \in {"add", "put"} -> [idbStores EXCEPT ![s] = Store(st, KeyOf(o, st), o.val)]
       [] o.kind = "delete" -> [idbStores EXCEPT ![s] = Remove(st, o.key)]
       [] o.kind = "clear" -> [idbStores EXCEPT ![s].recs = EmptyRecs]
       [] OTHER -> idbStores

\* (as it would be if put kept a record already stored under the key)
EffectPutKeeps(o) ==
  LET s == TheStore(o)
      st == idbStores[s]
  IN CASE o.kind = "add" \/ (o.kind = "put" /\ KeyOf(o, st) \notin DOMAIN st.recs) ->
            [idbStores EXCEPT ![s] = Store(st, KeyOf(o, st), o.val)]
       [] o.kind = "delete" -> [idbStores EXCEPT ![s] = Remove(st, o.key)]
       [] o.kind = "clear" ->
            [n \in DOMAIN idbStores |->
               IF n \in o.scope THEN [idbStores[n] EXCEPT !.recs = EmptyRecs]
               ELSE idbStores[n]]
       [] OTHER -> idbStores

\* The stores after the request(s) of call o ran: objectStore.add(data,
\* key), put(data, key), delete(query), and clear() on each named store.
Effect(o) ==
  LET s == TheStore(o)
      st == idbStores[s]
  IN CASE o.kind \in {"add", "put"} -> [idbStores EXCEPT ![s] = Store(st, KeyOf(o, st), o.val)]
       [] o.kind = "delete" -> [idbStores EXCEPT ![s] = Remove(st, o.key)]
       [] o.kind = "clear" ->
            [n \in DOMAIN idbStores |->
               IF n \in o.scope THEN [idbStores[n] EXCEPT !.recs = EmptyRecs]
               ELSE idbStores[n]]
       [] OTHER -> idbStores

\* (as it would be if add and put resolved in the success callback of the request)
onsuccessResolvesWrites(o) ==
  LET st == idbStores[TheStore(o)]
      o1 == [o EXCEPT !.req = "success",
                      !.rkey = IF o.kind \in {"add", "put"} THEN KeyOf(o, st) ELSE NoKey]
  IN CASE o.kind = "get" ->
            Settle(o1, "resolved",
                   IF o.key \in DOMAIN st.recs
                   THEN Res("record", o.key, st.recs[o.key], <<>>)
                   ELSE Tag("undefined"))
       [] o.kind = "getAll" ->
            Settle(o1, "resolved", Res("records", NoKey, "", Listing(st.recs, 1)))
       [] o.kind = "delete" -> Settle(o1, "resolved", Tag("true"))
       [] o.kind \in {"add", "put"} ->
            Settle(o1, "resolved", Res("key", o1.rkey, "", <<>>))
       [] OTHER -> o1

\* request.onsuccess as wired by get (line 120), getAll (line 140) and
\* delete (line 213); add, put and clear wire nothing on the request.
onsuccess(o) ==
  LET st == idbStores[TheStore(o)]
      o1 == [o EXCEPT !.req = "success",
                      !.rkey = IF o.kind \in {"add", "put"} THEN KeyOf(o, st) ELSE NoKey]
  IN CASE o.kind = "get" ->
            Settle(o1, "resolved",
                   IF o.key \in DOMAIN st.recs
                   THEN Res("record", o.key, st.recs[o.key], <<>>)
                   ELSE Tag("undefined"))
       [] o.kind = "getAll" ->
            Settle(o1, "resolved", Res("records", NoKey, "", Listing(st.recs, 1)))
       [] o.kind = "delete" -> Settle(o1, "resolved", Tag("true"))
       [] OTHER -> o1

\* (as it would be if add and put called resolve(false) on a transaction error)
onerrorResolvesFalse(o) ==
  LET o1 == [o EXCEPT !.req = "error"]
  IN CASE o.kind \in {"get", "getAll"} ->
            Settle(o1, "rejected",
                   IF variant = "db.ts" THEN Tag("undefined") ELSE Tag("request.error"))
       [] o.kind = "delete" ->
            Settle(o1, "rejected",
                   IF variant = "db.ts" THEN Tag("false") ELSE Tag("request.error"))
       [] o.kind \in {"add", "put"} -> Settle(o1, "resolved", Tag("false"))
       [] o.kind = "clear" ->
            IF variant = "db.ts" THEN o1
            ELSE Settle(o1, "rejected", Tag("transaction.error"))
       [] OTHER -> o1

\* request.onerror as wired by get (line 121), getAll (line 141) and delete
\* (line 214), then transaction.onerror, which the error event bubbles to,
\* as wired by add (line 161), put (line 181) and clear of part_000.
onerror(o) ==
  LET o1 == [o EXCEPT !.req = "error"]
  IN CASE o.kind \in {"get", "getAll"} ->
            Settle(o1, "rejected",
                   IF variant = "db.ts" THEN Tag("undefined") ELSE Tag("request.error"))
       [] o.kind = "delete" ->
            Settle(o1, "rejected",
                   IF variant = "db.ts" THEN Tag("false") ELSE Tag("request.error"))
       [] o.kind \in {"add", "put"} ->
            Settle(o1, "rejected",
                   IF variant = "db.ts" THEN Tag("false") ELSE Tag("transaction.error"))
       [] o.kind = "clear" ->
            IF variant = "db.ts" THEN o1
            ELSE Settle(o1, "rejected", Tag("transaction.error"))
       [] OTHER -> o1

\* (as it would be if add and put resolved with the key argument)
oncompleteResolvesArgument(o) ==
  IF o.req # "success" THEN o
  ELSE CASE o.kind \in {"add", "put"} ->
              Settle(o, "resolved", Res("key", o.key, "", <<>>))
         [] o.kind = "clear" /\ variant = "part_000" ->
              Settle(o, "resolved", Tag("true"))
         [] OTHER -> o

\* transaction.oncomplete as wired by add (line 160), put (line 180) and
\* clear of part_000; the other methods wire nothing on the transaction.
oncomplete(o) ==
  IF o.req # "success" THEN o
  ELSE CASE o.kind \in {"add", "put"} ->
              Settle(o, "resolved", Res("key", o.rkey, "", <<>>))
         [] o.kind = "clear" /\ variant = "part_000" ->
              Settle(o, "resolved", Tag("true"))
         [] OTHER -> o

Snapshot(scope) == [n \in scope |-> idbStores[n]]

\* The engine runs the request of call i and it succeeds.
RequestSuccess(i) ==
  LET o == ops[i]
  IN /\ o.req = "pending"
     /\ CanRun(o.tx)
     /\ ~ConstraintError(o)
     /\ txs' = [txs EXCEPT ![o.tx].undo = Snapshot(o.scope)]
     /\ idbStores' = Effect(o)
     /\ ops' = [ops EXCEPT ![i] = onsuccess(o)]
     /\ UNCHANGED <<hsVars, idbVersion, otherOpen, prior, db, phase, subscribed,
                    hookLog, budget>>

\* The engine runs the request of call i and it fails: a constraint is
\* violated, or the engine itself fails (fault).
RequestError(i) ==
  LET o == ops[i]
  IN /\ o.req = "pending"
     /\ CanRun(o.tx)
     /\ txs' = [txs EXCEPT ![o.tx].undo = Snapshot(o.scope)]
     /\ ops' = [ops EXCEPT ![i] = [onerror(o) EXCEPT !.fault = ~ConstraintError(o)]]
     /\ UNCHANGED <<hsVars, idbVersion, idbStores, otherOpen, prior, db, phase,
                    subscribed, hookLog, budget>>

OpOf(t) == CHOOSE i \in 1..Len(ops) : ops[i].tx = t

\* The engine commits transaction t: every request placed in it succeeded.
TransactionComplete(t) ==
  LET i == OpOf(t)
  IN /\ CanRun(t)
     /\ ops[i].req \in {"none", "success"}
     /\ txs' = [txs EXCEPT ![t].state = "committed"]
     /\ ops' = [ops EXCEPT ![i] = oncomplete(ops[i])]
     /\ UNCHANGED <<hsVars, idbVersion, idbStores, otherOpen, prior, db, phase,
                    subscribed, hookLog, budget>>

\* The abort after a failed request fails the requests of the transaction
\* that are still pending, and their error events bubble to
\* transaction.onerror too: a clear of part_000 over several stores calls
\* reject a second time, now with the error the abort has set on the
\* transaction.
onerrorOfPending(o) ==
  IF o.kind = "clear" /\ variant = "part_000" /\ o.req = "error"
     /\ Cardinality(o.scope) > 1
  THEN Settle(o, "rejected", Tag("transaction.error after abort"))
  ELSE o

\* The engine aborts transaction t: after the error event of a failed
\* request, or because the commit of a readwrite transaction fails (fault).
\* The stores of its scope are reverted.  No method wires onabort.
TransactionAbort(t) ==
  LET i == OpOf(t)
      u == txs[t].undo
  IN /\ CanRun(t)
     /\ \/ ops[i].req = "error"
        \/ ops[i].req \in {"none", "success"} /\ txs[t].mode = "readwrite"
     /\ txs' = [txs EXCEPT ![t].state = "aborted"]
     /\ idbStores' = [n \in DOMAIN idbStores |->
                        IF n \in DOMAIN u THEN u[n] ELSE idbStores[n]]
     /\ ops' = [ops EXCEPT ![i] = [onerrorOfPending(ops[i]) EXCEPT
                                     !.fault = @ \/ ops[i].req # "error"]]
     /\ UNCHANGED <<hsVars, idbVersion, otherOpen, prior, db, phase, subscribed,
                    hookLog, budget>>

(***************************************************************************)
(* The page is loaded again: the old handle and its connection are gone    *)
(* and the constructor runs anew, at the same version or the next one.     *)
(***************************************************************************)
Reopen ==
  /\ phase \in {"Open", "Error"}
  /\ \A t \in 1..Len(txs) : txs[t].state # "active"
  /\ \E v \in {version, version + 1} \cap Versions :
       version' = v
  /\ prior' = [version |-> idbVersion, stores |-> idbStores]
  /\ db' = "undefined"
  /\ phase' = "Idle"
  /\ subscribed' = FALSE
  /\ hookLog' = <<>>
  /\ ops' = <<>>
  /\ txs' = <<>>
  /\ UNCHANGED <<variant, setup, handlers, idbVersion, idbStores, otherOpen, budget>>

(***************************************************************************)
(* Initial states: the arguments of the constructor and the database the   *)
(* open request finds.                                                     *)
(***************************************************************************)
\* The README's store (autoIncrement) and a store with keys given by the caller.
DeclaredAuto(n) == n = "s1"

Descriptors(n) ==
  [name : {n}, auto : {DeclaredAuto(n)}, recreate : BOOLEAN, indexes : SUBSET IndexNames]

\* Declarations: sequences of descriptors with distinct store names.
Setups ==
  {<<>>}
  \cup {<<d>> : d \in UNION {Descriptors(n) : n \in StoreNames}}
  \cup {<<d, e>> : d \in Descriptors("s1"), e \in Descriptors("s2")}
  \cup {<<e, d>> : d \in Descriptors("s1"), e \in Descriptors("s2")}

\* A store left by an earlier version of the page: it holds one record and
\* has no key generator, whatever is declared now.
OldStore(ix) == [recs |-> (1 :> "a"), idx |-> ix, auto |-> FALSE, gen |-> 1]

OldStores ==
  UNION {[ns -> {OldStore(ix) : ix \in SUBSET IndexNames}] : ns \in SUBSET StoreNames}

\* The database found: absent (version 0, no store), or present.
Databases ==
  {[version |-> 0, stores |-> <<>>]}
  \cup [version : Versions, stores : OldStores]

\* The stores the README's declaration makes, after some use.
UsedStores ==
  ("s1" :> [recs |-> (1 :> "a"), idx |-> {"i1"}, auto |-> TRUE, gen |-> 2])
  @@ ("s2" :> [recs |-> (1 :> "a"), idx |-> {}, auto |-> FALSE, gen |-> 1])

ReadmeSetup ==
  << [name |-> "s1", auto |-> TRUE, recreate |-> FALSE, indexes |-> {"i1"}],
     [name |-> "s2", auto |-> FALSE, recreate |-> FALSE, indexes |-> {}] >>

InitHandle(d) ==
  /\ prior = d
  /\ idbVersion = d.version
  /\ idbStores = d.stores
  /\ db = "undefined"
  /\ phase = "Idle"
  /\ subscribed = FALSE
  /\ hookLog = <<>>
  /\ ops = <<>>
  /\ txs = <<>>

\* Handshake: every declaration against every database found.
InitOpen ==
  /\ variant = "db.ts"
  /\ version \in Versions
  /\ setup \in Setups
  /\ handlers \in {{}, HandlerNames}
  /\ otherOpen \in BOOLEAN
  /\ budget = 0
  /\ \E d \in Databases : InitHandle(d) /\ (otherOpen => d.version > 0)

\* Hooks: the README's declaration with every choice of hooks supplied,
\* against every database found.
InitHooks ==
  /\ variant = "db.ts"
  /\ version \in Versions
  /\ setup = ReadmeSetup
  /\ handlers \in SUBSET HandlerNames
  /\ otherOpen \in BOOLEAN
  /\ budget = 0
  /\ \E d \in Databases : InitHandle(d) /\ (otherOpen => d.version > 0)

\* Methods: the README's declaration, on a database that is absent or in use.
Init ==
  /\ variant \in Variants
  /\ version \in Versions
  /\ setup \in {ReadmeSetup, SubSeq(ReadmeSetup, 1, 1)}
  /\ handlers = {}
  /\ otherOpen \in BOOLEAN
  /\ budget = MaxOps
  /\ \E d \in {[version |-> 0, stores |-> <<>>],
               [version |-> 1, stores |-> UsedStores]} :
       InitHandle(d) /\ (otherOpen => d.version > 0)

\* Methods on an open handle: the handshake has succeeded on the database
\* in use (the state Init reaches by handleSuccess at the stored version).
InitOps ==
  /\ variant \in Variants
  /\ version = 1
  /\ setup = ReadmeSetup
  /\ handlers = {}
  /\ otherOpen = FALSE
  /\ budget = MaxOps
  /\ prior = [version |-> 1, stores |-> UsedStores]
  /\ idbVersion = 1
  /\ idbStores = UsedStores
  /\ db = "connection"
  /\ phase = "Open"
  /\ subscribed = FALSE
  /\ hookLog = <<>>
  /\ ops = <<>>
  /\ txs = <<>>

\* The stores the README's declaration makes on an absent database.
FreshStores == ApplySetup(<<>>, ReadmeSetup)

\* An open handle on the stores just created or in use, whose caller makes
\* one call more than the others do.
InitSeries ==
  /\ variant = "db.ts"
  /\ version = 1
  /\ setup = ReadmeSetup
  /\ handlers = {}
  /\ otherOpen = FALSE
  /\ budget = MaxOps + 1
  /\ \E st \in {FreshStores, UsedStores} :
       /\ prior = [version |-> 1, stores |-> st]
       /\ idbStores = st
  /\ idbVersion = 1
  /\ db = "connection"
  /\ phase = "Open"
  /\ subscribed = FALSE
  /\ hookLog = <<>>
  /\ ops = <<>>
  /\ txs = <<>>

NextOpen ==
  \/ handleUpgradeNeeded
  \/ handleSuccess
  \/ handleBlocked
  \/ handleError
  \/ OtherCloses
  \/ onversionchange
  \/ Reopen

\* The events of the engine on the transactions of the calls.
Engine ==
  \/ \E i \in 1..Len(ops) : RequestSuccess(i)
  \/ \E i \in 1..Len(ops) : RequestError(i)
  \/ \E t \in 1..Len(txs) : TransactionComplete(t)
  \/ \E t \in 1..Len(txs) : TransactionAbort(t)

Next ==
  \/ handleUpgradeNeeded
  \/ handleSuccess
  \/ handleBlocked
  \/ handleError
  \/ OtherCloses
  \/ transaction
  \/ get
  \/ getAll
  \/ add
  \/ put
  \/ clear
  \/ delete
  \/ Engine

\* A caller that writes: add and put of the value "b", with and without key.
NextWrite ==
  \/ addOf(StoreNames, Keys \cup {NoKey}, {"b"})
  \/ putOf(StoreNames, Keys \cup {NoKey}, {"b"})
  \/ Engine

\* A caller that deletes, reads back and writes again.
NextDelete ==
  \/ deleteOf(StoreNames, Keys)
  \/ getOf(StoreNames, Keys)
  \/ putOf({"s1"}, Keys, {"b"})
  \/ Engine

\* A caller that clears, lists and writes again.
NextClear ==
  \/ clearOf(StoreNames)
  \/ getAllOf(StoreNames)
  \/ putOf(StoreNames, Keys, {"b"})
  \/ Engine

\* A caller that uses every method on the record in use: reads, an add
\* with a generated key, a put and a delete on the key in use, and clears.
UsedKeys == DOMAIN UsedStores["s1"].recs

NextAll ==
  \/ getOf(StoreNames, UsedKeys)
  \/ getAllOf(StoreNames)
  \/ addOf(StoreNames, {NoKey}, {"b"})
  \/ putOf(StoreNames, UsedKeys, {"b"})
  \/ deleteOf(StoreNames, UsedKeys)
  \/ clearOf(StoreNames)
  \/ Engine

\* A caller that adds to the autoIncrement store without key, as the README
\* does, and reads back.
NextAdd ==
  \/ addOf({"s1"}, {NoKey}, {"b"})
  \/ getOf({"s1"}, Keys)
  \/ Engine

\* A caller that puts either value under the key in use and reads it.
NextOrder ==
  \/ putOf({"s1"}, UsedKeys, Values)
  \/ getOf({"s1"}, UsedKeys)
  \/ Engine

\* The whole class: the handshake and the methods, called at any time.
Spec == Init /\ [][Next]_vars

\* The handshake alone, over every declaration and database, with reloads.
SpecOpen == InitOpen /\ [][NextOpen]_vars

SpecWrite == InitOps /\ [][NextWrite]_vars

SpecDelete == InitOps /\ [][NextDelete]_vars

SpecClear == InitOps /\ [][NextClear]_vars

SpecAll == InitOps /\ [][NextAll]_vars

SpecAdd == InitSeries /\ [][NextAdd]_vars

SpecOrder == InitSeries /\ [][NextOrder]_vars

\* The handshake with every choice of hooks.
SpecHooks == InitHooks /\ [][NextOpen]_vars

(***************************************************************************)
(* Claims.                                                                 *)
(***************************************************************************)
Calls == 1..Len(ops)
Writes == {"add", "put"}
TxOf(i) == txs[ops[i].tx]

\* C1: every method called while no connection is attached returns a
\* promise that rejects with the "Couldn't resolve the transaction" error;
\* it does not stay pending and nothing is thrown outside the promise.
C1_RejectsUnresolved ==
  \A i \in Calls :
    ops[i].dbAtCall = "undefined" =>
      /\ ops[i].promise = "rejected"
      /\ ops[i].res = Unresolved
      /\ ops[i].escaped = "none"

Declared == {setup[n] : n \in 1..Len(setup)}

\* C2 as claimed: whatever database the open request finds, in Open every
\* declared store exists with every declared index, and an open at the
\* stored version changes no store and no index.
C2_DeclaredExistAlways ==
  phase = "Open" =>
    /\ \A d \in Declared :
         /\ Contains(idbStores, d.name)
         /\ d.indexes \subseteq idbStores[d.name].idx
    /\ (prior.version = version => idbStores = prior.stores)

\* C2 as amended: in Open after the upgrade step ran (the database was
\* absent or at a lower version) every declared store exists, and every
\* declared index exists on each declared store that was absent before or
\* is marked recreate; an open at the stored version changes no store and
\* no index.
C2_DeclaredExistAfterUpgrade ==
  phase = "Open" =>
    /\ prior.version < version =>
         \A d \in Declared :
           /\ Contains(idbStores, d.name)
           /\ (d.recreate \/ ~Contains(prior.stores, d.name)) =>
                d.indexes \subseteq idbStores[d.name].idx
    /\ (prior.version = version => idbStores = prior.stores)

C2_Witness ==
  /\ phase = "Open"
  /\ prior.version < version
  /\ prior.version > 0
  /\ \E d \in Declared :
       /\ d.recreate
       /\ d.indexes # {}
       /\ Contains(prior.stores, d.name)
       /\ prior.stores[d.name].idx = {}
  /\ \E d \in Declared : ~Contains(prior.stores, d.name)

\* An add or put whose promise is resolved has a committed transaction.
C3_ResolvedMeansCommitted ==
  \A i \in Calls :
    (ops[i].kind \in Writes /\ ops[i].promise = "resolved") =>
      /\ ops[i].tx # 0
      /\ TxOf(i).state = "committed"
      /\ ops[i].res = Res("key", ops[i].rkey, "", <<>>)

\* The step that resolves the promise of an add or put is the commit of its
\* transaction, and the record is then in the store under the resolved key.
C3_RecordStoredAtResolve ==
  \A i \in Calls :
    (/\ ops[i].kind \in Writes
     /\ ops[i].promise = "pending"
     /\ Len(ops') >= i
     /\ ops'[i].promise = "resolved") =>
      LET st == idbStores'[TheStore(ops[i])]
      IN /\ ops'[i].res.key \in DOMAIN st.recs
         /\ st.recs[ops'[i].res.key] = ops[i].val
         /\ txs[ops[i].tx].state = "active"
         /\ txs'[ops[i].tx].state = "committed"

\* C3: the promise of an add or put resolves only at the commit of its
\* transaction, with the key of the record, which is then in the store; it
\* is never resolved while the transaction is active or after it aborted.
C3_ResolvesOnCommit ==
  [] C3_ResolvedMeansCommitted /\ [][C3_RecordStoredAtResolve]_vars

C3_Witness ==
  \E i \in Calls :
    /\ ops[i].kind \in Writes
    /\ ops[i].promise = "resolved"
    /\ ops[i].key = NoKey
    /\ ops[i].res.key = 2

SameTarget(i, j) == ops[i].scope = ops[j].scope /\ ops[i].key = ops[j].key

\* A write to store n called after call i and before call j.
WriteBetween(i, j, n) ==
  \E m \in Calls : i < m /\ m < j /\ ops[m].kind \in Writes /\ n \in ops[m].scope

\* C4 as claimed: once delete(store, key) has resolved true, a get(store,
\* key) called afterwards resolves with an absent result, whether the
\* delete's transaction then commits or aborts.
C4_GetAbsentAfterDelete ==
  \A i \in Calls : \A j \in Calls :
    (/\ ops[i].kind = "delete"
     /\ ops[j].kind = "get"
     /\ SameTarget(i, j)
     /\ i \in ops[j].after
     /\ ops[j].promise = "resolved") =>
      ops[j].res = Tag("undefined")

\* A get called after a delete of the same key resolved, the delete
\* committed and no write was called in between, resolves absent.
C4_GetAbsentAfterCommittedDelete ==
  \A i \in Calls : \A j \in Calls :
    (/\ ops[i].kind = "delete"
     /\ ops[j].kind = "get"
     /\ SameTarget(i, j)
     /\ i \in ops[j].after
     /\ TxOf(i).state = "committed"
     /\ ~WriteBetween(i, j, TheStore(ops[i]))
     /\ ops[j].promise = "resolved") =>
      ops[j].res = Tag("undefined")

\* The step in which the request of a delete succeeds resolves true,
\* leaves the key absent and, when it was absent, changes no record.
C4_DeleteRequestStep ==
  \A i \in Calls :
    (/\ ops[i].kind = "delete"
     /\ ops[i].req = "pending"
     /\ Len(ops') >= i
     /\ ops'[i].req = "success") =>
      LET s == TheStore(ops[i])
      IN /\ ops'[i].promise = "resolved"
         /\ ops'[i].res = Tag("true")
         /\ ops[i].key \notin DOMAIN idbStores'[s].recs
         /\ (ops[i].key \notin DOMAIN idbStores[s].recs => idbStores' = idbStores)

\* C4 as amended: once delete(store, key) has resolved true and its
\* transaction has committed, a get(store, key) called afterwards, with no
\* add or put on the store called in between, resolves with an absent
\* result; a delete whose request succeeds resolves true, and on a key that
\* is not in the store it changes no record.
C4_DeleteThenGet ==
  [] C4_GetAbsentAfterCommittedDelete /\ [][C4_DeleteRequestStep]_vars

C4_Witness ==
  \E i \in Calls : \E j \in Calls :
    /\ ops[i].kind = "delete"
    /\ ops[j].kind = "get"
    /\ SameTarget(i, j)
    /\ i \in ops[j].after
    /\ TxOf(i).state = "committed"
    /\ ops[i].key \in DOMAIN TxOf(i).undo[TheStore(ops[i])].recs
    /\ ops[j].res = Tag("undefined")

\* An add that the engine refused because its key is taken.
Collided(o) ==
  o.kind = "add" /\ o.req = "error" /\ ~o.fault /\ o.key # NoKey

C5_CollisionRejected ==
  \A i \in Calls : Collided(ops[i]) => ops[i].promise = "rejected"

\* The engine step that runs an add on a taken key fails the request and
\* rejects the promise, and neither it nor the abort that follows changes
\* the store.
C5_CollisionStep ==
  \A i \in Calls :
    LET o == ops[i]
        s == TheStore(o)
    IN /\ (/\ o.kind = "add"
           /\ o.req = "pending"
           /\ CanRun(o.tx)
           /\ KeyOf(o, idbStores[s]) \in DOMAIN idbStores[s].recs
           /\ Len(ops') >= i
           /\ ops'[i] # o) =>
            /\ ops'[i].req = "error"
            /\ ops'[i].promise = "rejected"
            /\ idbStores'[s] = idbStores[s]
       /\ (/\ Collided(o)
           /\ TxOf(i).state = "active"
           /\ Len(txs') >= o.tx
           /\ txs'[o.tx].state # "active") =>
            /\ txs'[o.tx].state = "aborted"
            /\ idbStores'[s] = idbStores[s]

C6_UnsuccessfulResolvesFalse ==
  \A i \in Calls :
    (ops[i].kind \in Writes /\ ops[i].req = "error") =>
      /\ ops[i].promise = "resolved"
      /\ ops[i].res = Tag("false")

\* C7: after the open handshake ended in Error, wherever the error
\* occurred, the handle has no attached connection and every later method
\* call fails with the "Couldn't resolve the transaction" error.
C7_ErrorLeavesNoConnection ==
  /\ phase = "Error" => db = "undefined"
  /\ \A i \in Calls :
       ops[i].phaseAtCall = "Error" =>
         ops[i].promise = "rejected" /\ ops[i].res = Unresolved

\* C8: on an attached connection every failure of get, getAll, add, put,
\* delete or clear reaches the caller as a rejected promise: an exception
\* raised while the request is issued, an error event, or an abort of the
\* transaction (also one that no error event precedes).
C8_FailuresReject ==
  \A i \in Calls :
    (/\ ops[i].kind # "transaction"
     /\ ops[i].phaseAtCall = "Open"
     /\ \/ ops[i].escaped # "none"
        \/ ops[i].req = "error"
        \/ ops[i].tx # 0 /\ TxOf(i).state = "aborted") =>
      ops[i].promise = "rejected"

\* C9: this.db is undefined in Idle, Upgrading and Blocked and becomes
\* defined when the success callback runs; only calls made from Open on get
\* a transaction.
C9_UndefinedBeforeOpen ==
  /\ phase \in {"Idle", "Upgrading", "Blocked"} => db = "undefined"
  /\ \A i \in Calls : ops[i].tx # 0 => ops[i].phaseAtCall = "Open"

\* C10 as claimed: after clear was called with store names, a getAll called
\* afterwards on a named store resolves with an empty sequence.
C10_EmptyAfterClear ==
  \A i \in Calls : \A j \in Calls :
    (/\ ops[i].kind = "clear"
     /\ ops[i].tx # 0
     /\ ops[j].kind = "getAll"
     /\ i < j
     /\ ops[j].scope \subseteq ops[i].scope
     /\ ops[j].promise = "resolved") =>
      ops[j].res.list = <<>>

\* The transaction of a clear is readwrite over the named stores, and once
\* it committed a later getAll on a named store finds it empty.
C10_EmptyAfterCommittedClear ==
  \A i \in Calls :
    ops[i].kind = "clear" /\ ops[i].tx # 0 =>
      /\ TxOf(i).scope = ops[i].scope
      /\ TxOf(i).mode = "readwrite"
      /\ \A j \in Calls :
           (/\ ops[j].kind = "getAll"
            /\ i < j
            /\ ops[j].scope \subseteq ops[i].scope
            /\ TxOf(i).state = "committed"
            /\ ~WriteBetween(i, j, TheStore(ops[j]))
            /\ ops[j].promise = "resolved") =>
             ops[j].res.list = <<>>

\* A clear call creates at most one transaction; the step that runs its
\* requests empties the named stores and leaves the others as they were.
C10_ClearStep ==
  /\ (Len(ops') = Len(ops) + 1 /\ ops'[Len(ops')].kind = "clear") =>
       Len(txs') <= Len(txs) + 1
  /\ \A i \in Calls :
       (/\ ops[i].kind = "clear"
        /\ ops[i].req = "pending"
        /\ Len(ops') >= i
        /\ ops'[i].req = "success") =>
         \A n \in DOMAIN idbStores :
           IF n \in ops[i].scope
           THEN idbStores'[n].recs = EmptyRecs
           ELSE idbStores'[n] = idbStores[n]

\* C10 as amended: after clear was called with store names and its
\* transaction has committed, a getAll called after the clear on a named
\* store, with no add or put on that store called in between, resolves with
\* an empty sequence; the clears run in one readwrite transaction whose
\* scope is the named stores, and the stores not named keep their records.
C10_ClearThenGetAll ==
  [] C10_EmptyAfterCommittedClear /\ [][C10_ClearStep]_vars

C10_Witness ==
  \E i \in Calls : \E j \in Calls :
    /\ ops[i].kind = "clear"
    /\ ops[i].scope = StoreNames
    /\ ops[i].tx # 0
    /\ TxOf(i).state = "committed"
    /\ TxOf(i).undo["s2"].recs # EmptyRecs
    /\ ops[j].kind = "getAll"
    /\ i < j
    /\ ops[j].scope = {"s2"}
    /\ ops[j].promise = "resolved"
    /\ ops[j].res.list = <<>>

\* The upgrade step ran in this handshake and the handshake has completed.
Upgraded == phase = "Open" /\ prior.version < version

MarkedRecreate(n) == \E d \in Declared : d.name = n /\ d.recreate

\* C11: over any sequence of opens at increasing versions, once the
\* handshake that bumped the version has completed, a store declared with
\* recreate holds no record (none written before the bump survives), and a
\* store that existed before the bump and is declared without recreate
\* holds exactly the records it held before the bump.
C11_RecreateEmptiesOthersKeep ==
  Upgraded =>
    \A d \in Declared :
      /\ Contains(idbStores, d.name)
      /\ d.recreate => idbStores[d.name].recs = EmptyRecs
      /\ (~d.recreate /\ Contains(prior.stores, d.name)) =>
           idbStores[d.name].recs = prior.stores[d.name].recs

C11_Witness ==
  /\ Upgraded
  /\ prior.version > 0
  /\ \E d \in Declared, e \in Declared :
       /\ d.recreate
       /\ Contains(prior.stores, d.name)
       /\ prior.stores[d.name].recs # EmptyRecs
       /\ idbStores[d.name].recs = EmptyRecs
       /\ ~e.recreate
       /\ Contains(prior.stores, e.name)
       /\ idbStores[e.name].recs # EmptyRecs

\* The stores and indexes of the database: which stores exist, with which
\* key options and which indexes.
Schema(st) == [n \in DOMAIN st |-> [idx |-> st[n].idx, auto |-> st[n].auto]]

\* A step that creates or deletes a store or an index is the upgrade step,
\* taken at a requested version greater than the stored one (or the engine
\* undoing that step when the upgrade is aborted).
C16_SchemaStep ==
  Schema(idbStores') # Schema(idbStores) =>
    \/ /\ phase \in {"Idle", "Blocked"}
       /\ phase' = "Upgrading"
       /\ version > idbVersion
       /\ idbStores' = ApplySetup(idbStores, setup)
    \/ /\ phase = "Upgrading"
       /\ phase' = "Error"
       /\ idbStores' = prior.stores

\* An open at the stored version leaves every store and index as found.
C16_EqualVersionChangesNothing ==
  (phase \in {"Idle", "Open"} /\ prior.version = version) =>
    /\ idbStores = prior.stores
    /\ idbVersion = prior.version

\* C16: the handle creates or deletes stores and indexes only inside the
\* upgrade step, the upgrade step runs only when the requested version is
\* greater than the stored one (0 for an absent database), and an open at
\* the stored version changes no store and no index, whatever is declared.
C16_SchemaOnlyInUpgrade ==
  [] C16_EqualVersionChangesNothing /\ [][C16_SchemaStep]_vars

C16_Witness ==
  /\ phase = "Open"
  /\ prior.version = version
  /\ \E d \in Declared :
       \/ ~Contains(idbStores, d.name)
       \/ d.recreate /\ Contains(idbStores, d.name)
            /\ idbStores[d.name].recs # EmptyRecs

\* C17: the upgrade step leaves every store that existed before it and is
\* not marked recreate as it was, declared or not: same records, same key
\* options, same indexes.
C17_UpgradeKeepsOtherStores ==
  (phase \in {"Upgrading", "Open"} /\ prior.version < version) =>
    \A n \in DOMAIN prior.stores :
      ~MarkedRecreate(n) =>
        /\ Contains(idbStores, n)
        /\ idbStores[n] = prior.stores[n]

C17_Witness ==
  /\ phase = "Upgrading"
  /\ prior.version < version
  /\ \E d \in Declared :
       /\ ~d.recreate
       /\ Contains(prior.stores, d.name)
       /\ d.indexes # prior.stores[d.name].idx
       /\ d.auto # prior.stores[d.name].auto
  /\ \E n \in DOMAIN prior.stores :
       /\ \A d \in Declared : d.name # n
       /\ idbStores[n] = prior.stores[n]

Reads == {"get", "getAll"}

\* C12: when the read request of get or getAll fails, the returned promise
\* rejects with the error of that request (request.error), not with
\* undefined or another placeholder.
C12_ReadErrorRejectsWithRequestError ==
  \A i \in Calls :
    (ops[i].kind \in Reads /\ ops[i].req = "error") =>
      /\ ops[i].promise = "rejected"
      /\ ops[i].res = Tag("request.error")

\* A get called after an add had resolved, on the same store and with the
\* key the add resolved with, resolves with the record the add inserted.
C13_GetAfterAdd ==
  \A i \in Calls : \A j \in Calls :
    (/\ ops[i].kind = "add"
     /\ ops[j].kind = "get"
     /\ i \in ops[j].after
     /\ ops[j].scope = ops[i].scope
     /\ ops[j].key = ops[i].res.key
     /\ ops[j].promise = "resolved") =>
      ops[j].res = Res("record", ops[i].res.key, ops[i].val, <<>>)

Generated(i) ==
  /\ ops[i].kind = "add"
  /\ ops[i].key = NoKey
  /\ ops[i].promise = "resolved"

\* Adds without key on one store resolve with keys that grow in call order,
\* and on a store just created the first two resolve with 1 and 2.
C13_GeneratedKeysGrow ==
  /\ \A i \in Calls : \A j \in Calls :
       (Generated(i) /\ Generated(j) /\ i < j /\ ops[i].scope = ops[j].scope) =>
         /\ ops[i].res.tag = "key"
         /\ ops[j].res.tag = "key"
         /\ 1 <= ops[i].res.key
         /\ ops[i].res.key < ops[j].res.key
  /\ (/\ prior.stores = FreshStores
      /\ Len(ops) >= 2
      /\ Generated(1)
      /\ Generated(2)
      /\ ops[1].scope = ops[2].scope) =>
       (ops[1].res.key = 1 /\ ops[2].res.key = 2)

\* C13: an add whose promise resolved with key k, followed by a get on the
\* same store with key k, returns exactly the inserted value; on an
\* autoIncrement store successive adds resolve with distinct increasing
\* keys (1, then 2 on a store just created).
C13_AddThenGet ==
  C13_GetAfterAdd /\ C13_GeneratedKeysGrow

C13_Witness ==
  /\ prior.stores = FreshStores
  /\ Len(ops) = 3
  /\ Generated(1)
  /\ Generated(2)
  /\ ops[1].res.key = 1
  /\ ops[2].res.key = 2
  /\ ops[3].kind = "get"
  /\ ops[3].key = 2
  /\ 2 \in ops[3].after
  /\ ops[3].res = Res("record", 2, "b", <<>>)

\* A call made after call i and before call j that changes store n.
ChangeBetween(i, j, n) ==
  \E m \in Calls :
    /\ i < m
    /\ m < j
    /\ ops[m].kind \in {"add", "put", "delete", "clear"}
    /\ n \in ops[m].scope

\* The put of call i found a record under its key.
Replaced(i) ==
  /\ ops[i].kind = "put"
  /\ ops[i].tx # 0
  /\ ops[i].req = "success"
  /\ ops[i].key \in DOMAIN TxOf(i).undo[TheStore(ops[i])].recs

\* A put that found a record under its key and has resolved: a get on that
\* key called afterwards, nothing else changing the store in between,
\* resolves with the value of the put.
C14_GetAfterPut ==
  \A i \in Calls : \A j \in Calls :
    (/\ Replaced(i)
     /\ ops[j].kind = "get"
     /\ SameTarget(i, j)
     /\ i \in ops[j].after
     /\ ~ChangeBetween(i, j, TheStore(ops[i]))
     /\ ops[j].promise = "resolved") =>
      ops[j].res = Res("record", ops[i].key, ops[i].val, <<>>)

\* The engine steps of a put on a key that holds a record: its request
\* fails only by a fault of the engine; when it succeeds the record under
\* the key is the new value and the store holds the same keys, the other
\* records as before; when its transaction commits the promise resolves
\* with the key.
C14_PutStep ==
  \A i \in Calls :
    LET o == ops[i]
        s == TheStore(o)
    IN (/\ o.kind = "put"
        /\ o.req = "pending"
        /\ o.key \in DOMAIN idbStores[s].recs
        /\ Len(ops') >= i) =>
         /\ ops'[i].req = "error" => ops'[i].fault
         /\ ops'[i].req = "success" =>
              /\ DOMAIN idbStores'[s].recs = DOMAIN idbStores[s].recs
              /\ idbStores'[s].recs[o.key] = o.val
              /\ \A k \in DOMAIN idbStores[s].recs :
                   k # o.key => idbStores'[s].recs[k] = idbStores[s].recs[k]

C14_PutCommitStep ==
  \A i \in Calls :
    (/\ Replaced(i)
     /\ TxOf(i).state = "active"
     /\ Len(ops') >= i
     /\ txs'[ops[i].tx].state = "committed") =>
      /\ ops'[i].promise = "resolved"
      /\ ops'[i].res = Res("key", ops[i].key, "", <<>>)

\* C14: a put on a key that already holds a record resolves successfully
\* and replaces the record: a get on that key afterwards returns the new
\* value, and the number of records in the store is unchanged.
C14_PutReplaces ==
  [] C14_GetAfterPut /\ [][C14_PutStep /\ C14_PutCommitStep]_vars

C14_Witness ==
  \E i \in Calls : \E j \in Calls :
    /\ Replaced(i)
    /\ TxOf(i).undo[TheStore(ops[i])].recs[ops[i].key] = "a"
    /\ ops[i].promise = "resolved"
    /\ ops[j].kind = "get"
    /\ SameTarget(i, j)
    /\ i \in ops[j].after
    /\ ops[j].res = Res("record", ops[i].key, "b", <<>>)
    /\ Cardinality(DOMAIN idbStores[TheStore(ops[i])].recs) = 1

\* The puts under key k of store n called before call j whose transaction
\* has committed.
CommittedPuts(n, k, j) ==
  {i \in Calls :
     /\ i < j
     /\ ops[i].kind = "put"
     /\ ops[i].scope = {n}
     /\ ops[i].key = k
     /\ ops[i].tx # 0
     /\ TxOf(i).state = "committed"}

Last(S) == CHOOSE i \in S : \A m \in S : m <= i

\* What key k of store n holds when the puts called before call j have
\* taken effect in call order: the value of the last one that committed,
\* else the record found when the handle was opened.
Expected(n, k, j) ==
  LET P == CommittedPuts(n, k, j)
      old == prior.stores[n].recs
  IN IF P # {} THEN Res("record", k, ops[Last(P)].val, <<>>)
     ELSE IF k \in DOMAIN old THEN Res("record", k, old[k], <<>>)
     ELSE Tag("undefined")

\* Each call creates its transaction when it is called: the transactions
\* are in call order.
C15_CreatedInCallOrder ==
  \A i \in Calls : ops[i].tx = i

\* A get that has resolved ran after every put called before it on its
\* store had finished, and resolved with what those puts left.
C15_GetSeesEarlierPuts ==
  \A j \in Calls :
    (ops[j].kind = "get" /\ ops[j].promise = "resolved") =>
      /\ \A i \in Calls :
           (i < j /\ ops[i].kind = "put" /\ ops[i].scope = ops[j].scope) =>
             TxOf(i).state # "active"
      /\ ops[j].res = Expected(TheStore(ops[j]), ops[j].key, j)

\* Once every transaction has finished, the key holds the value of the
\* last put that committed.
C15_StoreEndsWithLastPut ==
  (\A t \in 1..Len(txs) : txs[t].state # "active") =>
    \A k \in UsedKeys :
      LET e == Expected("s1", k, Len(ops) + 1)
          recs == idbStores["s1"].recs
      IN IF e.tag = "record" THEN k \in DOMAIN recs /\ recs[k] = e.val
         ELSE k \notin DOMAIN recs

\* C15: calls made one after another on the same store take effect in the
\* order they were called, also when the caller does not wait for the
\* earlier promises: for put(k, v1), put(k, v2), get(k) called back to
\* back, the store ends with v2 and the get resolves with v2 (with the
\* value of the last put that committed, when the engine fails one).
C15_CallOrder ==
  /\ C15_CreatedInCallOrder
  /\ C15_GetSeesEarlierPuts
  /\ C15_StoreEndsWithLastPut

C15_Witness ==
  /\ Len(ops) = 3
  /\ ops[1].kind = "put" /\ ops[1].val = "a"
  /\ ops[2].kind = "put" /\ ops[2].val = "b"
  /\ ops[3].kind = "get"
  /\ ops[2].after = {}
  /\ ops[3].after = {}
  /\ \A t \in 1..3 : txs[t].state = "committed"
  /\ ops[3].res = Res("record", ops[3].key, "b", <<>>)
  /\ idbStores["s1"].recs[ops[3].key] = "b"

\* A step in which a method is called: the call is the last of ops'.
IsCall == Len(ops') = Len(ops) + 1

\* A call on the open handle creates one transaction, over exactly the
\* store names passed, readonly for get and getAll and readwrite for add,
\* put, delete and clear; the transactions of the earlier calls stay as
\* they were, and no other step creates a transaction.
C18_CallStep ==
  IF IsCall
  THEN LET o == ops'[Len(ops')]
       IN /\ Len(txs') = Len(txs) + 1
          /\ o.tx = Len(txs')
          /\ txs'[o.tx].scope = o.scope
          /\ txs'[o.tx].mode = (IF o.kind \in Reads THEN "readonly" ELSE "readwrite")
          /\ txs'[o.tx].state = "active"
          /\ \A t \in 1..Len(txs) : txs'[t] = txs[t]
          /\ \A i \in Calls : ops'[i].tx = ops[i].tx
  ELSE Len(txs') = Len(txs)

\* No transaction belongs to two calls.
C18_NotShared ==
  /\ Len(txs) = Len(ops)
  /\ \A i \in Calls : \A j \in Calls :
       i # j => (ops[i].tx # 0 /\ ops[i].tx # ops[j].tx)

\* C18: every call of get, getAll, add, put, delete or clear on an open
\* handle creates exactly one new transaction, whose scope is exactly the
\* store name(s) passed and whose mode is readonly for get/getAll and
\* readwrite for add/put/delete/clear; no transaction is shared between
\* two calls.
C18_OneTransactionPerCall ==
  [] C18_NotShared /\ [][C18_CallStep]_vars

C18_Witness ==
  /\ Len(ops) = 2
  /\ ops[1].kind = "clear"
  /\ ops[1].scope = StoreNames
  /\ txs[ops[1].tx] = NewTx(StoreNames, "readwrite")
  /\ ops[2].kind = "getAll"
  /\ txs[ops[2].tx] = NewTx(ops[2].scope, "readonly")
  /\ ops[1].tx # ops[2].tx

\* A promise that has settled keeps its state and its value in every step,
\* whatever event of the engine the step is.
C19_SettledStays ==
  \A i \in Calls :
    (ops[i].promise # "pending" /\ Len(ops') >= i) =>
      /\ ops'[i].promise = ops[i].promise
      /\ ops'[i].res = ops[i].res

\* A pending promise carries no value, a settled one carries one.
C19_ValueWhenSettled ==
  \A i \in Calls : (ops[i].promise = "pending") <=> (ops[i].res = NoRes)

HookCall(h, old, new) == [hook |-> h, old |-> old, new |-> new]

\* The hook calls a step makes when the hook h of its event is supplied:
\* one call with the arguments of the event; none when it is absent.
Dispatched(h, old, new) ==
  hookLog' = IF h \in handlers THEN Append(hookLog, HookCall(h, old, new))
             ELSE hookLog

BlockedEvent == phase = "Idle" /\ phase' = "Blocked"
ErrorEvent == phase # "Error" /\ phase' = "Error"
Reloaded == phase # "Idle" /\ phase' = "Idle"

\* The blocked event calls onBlocked once with the stored and the requested
\* version, the error event calls onError once with the error of the
\* request, both only when supplied, and neither touches this.db; any other
\* hook call is one call of onVersionChange, made in Open with the old and
\* new version of the notification.
C20_HookStep ==
  /\ BlockedEvent =>
       /\ Dispatched("onBlocked", idbVersion, version)
       /\ db' = db
       /\ subscribed' = subscribed
  /\ ErrorEvent =>
       /\ Dispatched("onError", 0, 0)
       /\ db' = db
       /\ subscribed' = subscribed
  /\ (~BlockedEvent /\ ~ErrorEvent /\ ~Reloaded /\ hookLog' # hookLog) =>
       /\ phase = "Open"
       /\ phase' = "Open"
       /\ "onVersionChange" \in handlers
       /\ hookLog' = Append(hookLog,
                            HookCall("onVersionChange", idbVersion, idbVersion + 1))
       /\ db' = db

\* Only supplied hooks are ever called, onVersionChange only on a handle
\* that reached Open, and the handle listens for version changes only when
\* the hook was supplied and only once Open.
C20_OnlySupplied ==
  /\ \A n \in 1..Len(hookLog) :
       /\ hookLog[n].hook \in handlers
       /\ hookLog[n].hook = "onVersionChange" => phase = "Open"
  /\ subscribed <=> (phase = "Open" /\ "onVersionChange" \in handlers)

\* C20: the hooks are dispatched one per engine event and only when
\* supplied: each blocked event calls onBlocked with its old and new
\* version, each open error calls onError with the request's error, each
\* version-change notification calls onVersionChange with its old and new
\* version and only after the handshake reached Open; an absent hook is
\* skipped with no other effect on the handle.
C20_HooksPerEvent ==
  [] C20_OnlySupplied /\ [][C20_HookStep]_vars

C20_Witness ==
  /\ phase = "Open"
  /\ "onError" \notin handlers
  /\ Len(hookLog) = 2
  /\ hookLog[1].hook = "onBlocked"
  /\ hookLog[1].old < hookLog[1].new
  /\ hookLog[2] = HookCall("onVersionChange", idbVersion, idbVersion + 1)

====
